---- MODULE Spec2Model ----
(***************************************************************************)
(* Model of scripts/publish_playstore.py: the two-transaction release      *)
(* track reconciliation of main(), against a model of the publisher API    *)
(* (edits are private copies of the track that take effect on commit).     *)
(*                                                                         *)
(* JSON values are wrapped: JNull is JSON null / Python None, J(v) is any  *)
(* other value.  A release is a function from its keys to JSON values, so  *)
(* "k in r" is k \in DOMAIN r and "r[k] is not None" is ~r[k].isNull.      *)
(* Text is a sequence of tokens (notes_file paths).                        *)
(***************************************************************************)
EXTENDS Integers, Sequences, FiniteSets, TLC

\* ---- bounds ----
MaxReleases == 3

\* ---- JSON values ----
JNull == [isNull |-> TRUE]
J(v) == [isNull |-> FALSE, v |-> v]

\* dict.get(k): the value, or None when the key is absent
Get(r, k) == IF k \in DOMAIN r THEN r[k] ELSE JNull

RecognizedKeys ==
  {"name", "versionCodes", "status", "userFraction", "countryTargeting",
   "releaseNotes", "inAppUpdatePriority"}

\* ---- inputs: the releases a track may hold ----
Statuses == {"draft", "inProgress", "halted", "completed", "statusUnspecified"}
\* marks a release read without a status key
NoStatus == "(absent)"
Shapes == {"plain", "decorated"}

\* a release as the API returns it; a decorated one carries a key outside the
\* recognized set and null-valued recognized keys
MkRelease(st, shape, i) ==
  LET vcs == [versionCodes |-> J(<<ToString(i)>>)]
      sts == IF st = NoStatus THEN vcs ELSE vcs @@ [status |-> J(st)]
  IN IF shape = "plain" THEN sts @@ [name |-> J("r")]
     ELSE sts @@ [name |-> JNull, releaseId |-> J("x"), userFraction |-> JNull]

RECURSIVE TracksOfLen(_, _)
TracksOfLen(n, shape) ==
  IF n = 0 THEN {<<>>}
  ELSE {Append(t, MkRelease(st, shape, n)) :
          t \in TracksOfLen(n - 1, shape), st \in Statuses \cup {NoStatus}}

InitialTracks == UNION {TracksOfLen(n, sh) : n \in 0..MaxReleases, sh \in Shapes}

Countries == {"BD", "IN"}
UserFractions == {"0.99", "abc"}
NotesFiles == {<<"out", "/", "whatsnew-", "fr-FR">>, <<"release-notes.txt">>}
ReleaseNames == {"v1"}
NewVersionCodes == {11, 12}

\* ---- pure functions ----
keep_fields_all(r) == r

keep_fields(r) ==
  [k \in {k \in RecognizedKeys \cap DOMAIN r : ~r[k].isNull} |-> r[k]]

\* position of the last "/" token, 0 when there is none
LastSlash(s) ==
  LET idx == {i \in 1..Len(s) : s[i] = "/"}
  IN IF idx = {} THEN 0 ELSE CHOOSE i \in idx : \A j \in idx : j <= i

infer_locale_from_whatsnew(notes_file) ==
  LET base == SubSeq(notes_file, LastSlash(notes_file) + 1, Len(notes_file))
  IN IF base # <<>> /\ Head(base) = "whatsnew-" THEN Tail(base) ELSE <<"en-US">>

\* float(): hundredths of the parsed value, -1 for ValueError
Float(s) ==
  CASE s = "0.99" -> 99
    [] s = "0.5" -> 50
    [] s = "1" -> 100
    [] OTHER -> -1

has_inprogress_any(releases) == releases # <<>>

has_inprogress(releases) ==
  \E i \in 1..Len(releases) : Get(releases[i], "status") = J("inProgress")

RECURSIVE HaltLoopKeepDrafts(_)
HaltLoopKeepDrafts(rs) ==
  IF rs = <<>> THEN <<>>
  ELSE LET r == Head(rs)
           status == Get(r, "status")
           rr == keep_fields(r)
       IN <<IF status = J("inProgress")
              THEN [rr EXCEPT !["status"] = J("halted")]
              ELSE rr>> \o HaltLoopKeepDrafts(Tail(rs))

RECURSIVE HaltLoopNoRewrite(_)
HaltLoopNoRewrite(rs) ==
  IF rs = <<>> THEN <<>>
  ELSE IF Get(Head(rs), "status") = J("draft") THEN HaltLoopNoRewrite(Tail(rs))
       ELSE <<keep_fields(Head(rs))>> \o HaltLoopNoRewrite(Tail(rs))

\* the loop of Phase 1: new_releases_a
RECURSIVE HaltLoop(_)
HaltLoop(rs) ==
  IF rs = <<>> THEN <<>>
  ELSE LET r == Head(rs)
           status == Get(r, "status")
           rr == keep_fields(r)
       IN IF status = J("draft") THEN HaltLoop(Tail(rs))
          ELSE <<IF status = J("inProgress")
                   THEN [rr EXCEPT !["status"] = J("halted")]
                   ELSE rr>> \o HaltLoop(Tail(rs))

\* halted_previous after the loop of Phase 1
HaltedInLoop(rs) ==
  \E i \in 1..Len(rs) : Get(rs[i], "status") = J("inProgress")

RECURSIVE CompletedOnlyKeepHalted(_)
CompletedOnlyKeepHalted(rs) ==
  IF rs = <<>> THEN <<>>
  ELSE IF Get(Head(rs), "status") \in {J("completed"), J("halted")}
         THEN <<keep_fields(Head(rs))>> \o CompletedOnlyKeepHalted(Tail(rs))
         ELSE CompletedOnlyKeepHalted(Tail(rs))

\* the loop of Phase 2: completed_only
RECURSIVE CompletedOnly(_)
CompletedOnly(rs) ==
  IF rs = <<>> THEN <<>>
  ELSE IF Get(Head(rs), "status") = J("completed")
         THEN <<keep_fields(Head(rs))>> \o CompletedOnly(Tail(rs))
         ELSE CompletedOnly(Tail(rs))

NewReleaseRestOfWorld(release_name, user_fraction, country, vcode, locale, notes_text) ==
  [name |-> J(release_name),
   status |-> J("inProgress"),
   userFraction |-> J(Float(user_fraction)),
   countryTargeting |-> J([countries |-> <<country>>, includeRestOfWorld |-> TRUE]),
   versionCodes |-> J(<<vcode>>),
   releaseNotes |-> J(<<[language |-> locale, text |-> notes_text]>>),
   inAppUpdatePriority |-> J(0)]

\* new_release of Phase 2
NewRelease(release_name, user_fraction, country, vcode, locale, notes_text) ==
  [name |-> J(release_name),
   status |-> J("inProgress"),
   userFraction |-> J(Float(user_fraction)),
   countryTargeting |-> J([countries |-> <<country>>, includeRestOfWorld |-> FALSE]),
   versionCodes |-> J(<<vcode>>),
   releaseNotes |-> J(<<[language |-> locale, text |-> notes_text]>>),
   inAppUpdatePriority |-> J(0)]

\* str(bundle["versionCode"])
VersionCodeStr(bundle) == ToString(bundle.versionCode)

\* ---- control: an HTTPError is re-raised as RuntimeError and ends main ----
\* http_json and the token request
Raise(ok, next) == IF ok THEN next ELSE "aborted"

RaiseUploadSwallowed(ok, next) == next

\* http_upload_octet
RaiseUpload(ok, next) == IF ok THEN next ELSE "aborted"

NoFile == [written |-> FALSE]

VARIABLES
  pc,               \* position in main()
  args,             \* the command-line arguments main() uses
  track,            \* the live track on the server
  serverEdits,      \* edit id -> the edit's copy of the track
  calls,            \* API calls issued so far, in order
  edit_id_a, edit_id_b,
  releases_a, new_releases_a, halted_previous,
  bundle, version_code,
  releases_b, releases_out,
  play_outputs, telegram_out

vars == <<pc, args, track, serverEdits, calls, edit_id_a, edit_id_b, releases_a, new_releases_a,
          halted_previous, bundle, version_code, releases_b, releases_out,
          play_outputs, telegram_out>>

\* one request to the publisher API: the operation, the edit it names, whether
\* it succeeded, the releases of a track-update body, the version code in an
\* upload URL, and the versionCode of a bundle response
Call(op, edit, ok, body, vc, resp) ==
  [op |-> op, edit |-> edit, ok |-> ok, body |-> body, vc |-> vc, resp |-> resp]

Init ==
  /\ pc = "mint"
  /\ args \in [country : Countries, user_fraction : UserFractions,
               notes_file : NotesFiles, release_name : ReleaseNames]
  /\ track \in InitialTracks
  /\ serverEdits = <<>>
  /\ calls = <<>>
  /\ edit_id_a = 0
  /\ edit_id_b = 0
  /\ releases_a = <<>>
  /\ new_releases_a = <<>>
  /\ halted_previous = FALSE
  /\ bundle = [versionCode |-> 0]
  /\ version_code = ""
  /\ releases_b = <<>>
  /\ releases_out = <<>>
  /\ play_outputs = NoFile
  /\ telegram_out = NoFile

\* locals of main() an action does not assign
Locals == <<releases_a, new_releases_a, halted_previous, bundle, version_code,
            releases_b, releases_out>>
Files == <<play_outputs, telegram_out>>

\* token = mint_access_token(...)
MintToken(ok) ==
  /\ pc = "mint"
  /\ calls' = Append(calls, Call("token", 0, ok, <<>>, "", 0))
  /\ pc' = Raise(ok, "create_a")
  /\ UNCHANGED <<args, track, serverEdits, edit_id_a, edit_id_b, Locals, Files>>

\* edit_id_a = create_edit(token, pkg)
CreateEditA(ok) ==
  /\ pc = "create_a"
  /\ calls' = Append(calls, Call("create_edit", 0, ok, <<>>, "", 0))
  /\ IF ok
       THEN /\ serverEdits' = Append(serverEdits, track)
            /\ edit_id_a' = Len(serverEdits) + 1
       ELSE UNCHANGED <<serverEdits, edit_id_a>>
  /\ pc' = Raise(ok, "get_a")
  /\ UNCHANGED <<args, track, edit_id_b, Locals, Files>>

\* track_a = get_track(...); releases_a = track_a.get("releases", []) or []
GetTrackA(ok) ==
  /\ pc = "get_a"
  /\ calls' = Append(calls, Call("get_track", edit_id_a, ok, <<>>, "", 0))
  /\ releases_a' = IF ok THEN serverEdits[edit_id_a] ELSE <<>>
  /\ pc' = "phase1"
  /\ UNCHANGED <<args, track, serverEdits, edit_id_a, edit_id_b, new_releases_a,
                 halted_previous, bundle, version_code, releases_b, releases_out,
                 Files>>

\* the loop of Phase 1, or the else branch that skips the write
Phase1 ==
  /\ pc = "phase1"
  /\ IF has_inprogress(releases_a)
       THEN /\ new_releases_a' = HaltLoop(releases_a)
            /\ halted_previous' = HaltedInLoop(releases_a)
            /\ pc' = "update_a"
       ELSE /\ UNCHANGED <<new_releases_a, halted_previous>>
            /\ pc' = "create_b"
  /\ UNCHANGED <<args, track, serverEdits, calls, edit_id_a, edit_id_b, releases_a,
                 bundle, version_code, releases_b, releases_out, Files>>

\* update_track(token, pkg, edit_id_a, track_name, new_releases_a)
UpdateTrackA(ok) ==
  /\ pc = "update_a"
  /\ calls' = Append(calls, Call("update_track", edit_id_a, ok, new_releases_a, "", 0))
  /\ serverEdits' = IF ok THEN [serverEdits EXCEPT ![edit_id_a] = new_releases_a]
                          ELSE serverEdits
  /\ pc' = Raise(ok, "commit_a")
  /\ UNCHANGED <<args, track, edit_id_a, edit_id_b, Locals, Files>>

\* commit_edit(token, pkg, edit_id_a)
CommitA(ok) ==
  /\ pc = "commit_a"
  /\ calls' = Append(calls, Call("commit", edit_id_a, ok, <<>>, "", 0))
  /\ track' = IF ok THEN serverEdits[edit_id_a] ELSE track
  /\ pc' = Raise(ok, "create_b")
  /\ UNCHANGED <<args, serverEdits, edit_id_a, edit_id_b, Locals, Files>>

\* edit_id_b = create_edit(token, pkg)
CreateEditB(ok) ==
  /\ pc = "create_b"
  /\ calls' = Append(calls, Call("create_edit", 0, ok, <<>>, "", 0))
  /\ IF ok
       THEN /\ serverEdits' = Append(serverEdits, track)
            /\ edit_id_b' = Len(serverEdits) + 1
       ELSE UNCHANGED <<serverEdits, edit_id_b>>
  /\ pc' = Raise(ok, "upload_bundle")
  /\ UNCHANGED <<args, track, edit_id_a, Locals, Files>>

\* bundle = http_upload_octet(.../bundles...); version_code = str(bundle["versionCode"])
UploadBundle(ok) ==
  /\ pc = "upload_bundle"
  /\ \E vc \in NewVersionCodes :
       LET b == [versionCode |-> vc] IN
       /\ calls' = Append(calls, Call("upload_bundle", edit_id_b, ok, <<>>, "",
                                      IF ok THEN vc ELSE 0))
       /\ bundle' = IF ok THEN b ELSE bundle
       /\ version_code' = IF ok THEN VersionCodeStr(b) ELSE version_code
  /\ pc' = RaiseUpload(ok, "upload_symbols")
  /\ UNCHANGED <<args, track, serverEdits, edit_id_a, edit_id_b, releases_a,
                 new_releases_a, halted_previous, releases_b, releases_out, Files>>

\* http_upload_octet(.../apks/{version_code}/deobfuscationFiles/nativeCode...)
UploadSymbols(ok) ==
  /\ pc = "upload_symbols"
  /\ calls' = Append(calls, Call("upload_symbols", edit_id_b, ok, <<>>, version_code, 0))
  /\ pc' = RaiseUpload(ok, "get_b")
  /\ UNCHANGED <<args, track, serverEdits, edit_id_a, edit_id_b, Locals, Files>>

\* track_b = get_track(...); releases_b = track_b.get("releases", []) or []
GetTrackB(ok) ==
  /\ pc = "get_b"
  /\ calls' = Append(calls, Call("get_track", edit_id_b, ok, <<>>, "", 0))
  /\ releases_b' = IF ok THEN serverEdits[edit_id_b] ELSE <<>>
  /\ pc' = "phase2"
  /\ UNCHANGED <<args, track, serverEdits, edit_id_a, edit_id_b, releases_a,
                 new_releases_a, halted_previous, bundle, version_code,
                 releases_out, Files>>

\* completed_only, locale, notes_text, new_release, releases_out; read_text of
\* the notes file and float() of the user fraction may raise
Phase2(notes_ok) ==
  /\ pc = "phase2"
  /\ IF notes_ok /\ Float(args.user_fraction) >= 0
       THEN /\ releases_out' =
                 CompletedOnly(releases_b)
                   \o <<NewRelease(args.release_name, args.user_fraction,
                                   args.country, version_code,
                                   infer_locale_from_whatsnew(args.notes_file),
                                   "notes")>>
            /\ pc' = "update_b"
       ELSE /\ UNCHANGED releases_out
            /\ pc' = "aborted"
  /\ UNCHANGED <<args, track, serverEdits, calls, edit_id_a, edit_id_b, releases_a,
                 new_releases_a, halted_previous, bundle, version_code, releases_b,
                 Files>>

\* update_track(token, pkg, edit_id_b, track_name, releases_out)
UpdateTrackB(ok) ==
  /\ pc = "update_b"
  /\ calls' = Append(calls, Call("update_track", edit_id_b, ok, releases_out, "", 0))
  /\ serverEdits' = IF ok THEN [serverEdits EXCEPT ![edit_id_b] = releases_out]
                          ELSE serverEdits
  /\ pc' = Raise(ok, "commit_b")
  /\ UNCHANGED <<args, track, edit_id_a, edit_id_b, Locals, Files>>

\* commit_edit(token, pkg, edit_id_b)
CommitB(ok) ==
  /\ pc = "commit_b"
  /\ calls' = Append(calls, Call("commit", edit_id_b, ok, <<>>, "", 0))
  /\ track' = IF ok THEN serverEdits[edit_id_b] ELSE track
  /\ pc' = Raise(ok, "write_outputs")
  /\ UNCHANGED <<args, serverEdits, edit_id_a, edit_id_b, Locals, Files>>

\* json.dump({"version_code": ..., "halted_previous": ...}) to play_outputs.json
WriteOutputs ==
  /\ pc = "write_outputs"
  /\ play_outputs' = [written |-> TRUE, version_code |-> version_code,
                      halted_previous |-> halted_previous]
  /\ pc' = "read_raw"
  /\ UNCHANGED <<args, track, serverEdits, calls, edit_id_a, edit_id_b, Locals,
                 telegram_out>>

\* raw_notes = read_text(args.raw_notes_file): raises when the file is unreadable
ReadRawNotes(ok) ==
  /\ pc = "read_raw"
  /\ pc' = IF ok THEN "write_telegram" ELSE "aborted"
  /\ UNCHANGED <<args, track, serverEdits, calls, edit_id_a, edit_id_b, Locals, Files>>

\* the message is built and written to args.telegram_out; return 0
WriteTelegram(ok) ==
  /\ pc = "write_telegram"
  /\ telegram_out' = IF ok THEN [written |-> TRUE, version_code |-> version_code,
                                 halted_note |-> halted_previous,
                                 country |-> args.country,
                                 rollout |-> args.user_fraction]
                          ELSE telegram_out
  /\ pc' = IF ok THEN "done" ELSE "aborted"
  /\ UNCHANGED <<args, track, serverEdits, calls, edit_id_a, edit_id_b, Locals,
                 play_outputs>>

Next ==
  \/ \E ok \in BOOLEAN : MintToken(ok)
  \/ \E ok \in BOOLEAN : CreateEditA(ok)
  \/ \E ok \in BOOLEAN : GetTrackA(ok)
  \/ Phase1
  \/ \E ok \in BOOLEAN : UpdateTrackA(ok)
  \/ \E ok \in BOOLEAN : CommitA(ok)
  \/ \E ok \in BOOLEAN : CreateEditB(ok)
  \/ \E ok \in BOOLEAN : UploadBundle(ok)
  \/ \E ok \in BOOLEAN : UploadSymbols(ok)
  \/ \E ok \in BOOLEAN : GetTrackB(ok)
  \/ \E ok \in BOOLEAN : Phase2(ok)
  \/ \E ok \in BOOLEAN : UpdateTrackB(ok)
  \/ \E ok \in BOOLEAN : CommitB(ok)
  \/ WriteOutputs
  \/ \E ok \in BOOLEAN : ReadRawNotes(ok)
  \/ \E ok \in BOOLEAN : WriteTelegram(ok)

Spec == Init /\ [][Next]_vars

\* ---- vocabulary of the properties ----
StatusOf(r) == Get(r, "status")
CountStatus(rs, st) == Cardinality({i \in 1..Len(rs) : StatusOf(rs[i]) = J(st)})
IsCompleted(r) == StatusOf(r) = J("completed")
NotDraft(r) == StatusOf(r) # J("draft")
TrackUpdates == {i \in 1..Len(calls) : calls[i].op = "update_track"}
UpdatesOf(e) == {i \in TrackUpdates : calls[i].edit = e}
PassARead == \E i \in 1..Len(calls) : calls[i].op = "get_track" /\ calls[i].edit = edit_id_a
PassBRead ==
  /\ edit_id_b # 0
  /\ \E i \in 1..Len(calls) : calls[i].op = "get_track" /\ calls[i].edit = edit_id_b
AllCallsOk == \A i \in 1..Len(calls) : calls[i].ok
LastCall == calls[Len(calls)]

TypeOK == pc \in {"mint", "create_a", "get_a", "phase1", "update_a", "commit_a",
                  "create_b", "upload_bundle", "upload_symbols", "get_b", "phase2",
                  "update_b", "commit_b", "write_outputs", "read_raw",
                  "write_telegram", "done", "aborted"}

\* ---- properties ----

\* C1: every track-update payload, of Pass A and of Pass B, holds at most one
\* entry whose status is none of completed, halted, draft.
C1_AtMostOneStagedPerWrite ==
  \A i \in TrackUpdates :
    Cardinality({j \in 1..Len(calls[i].body) :
                   StatusOf(calls[i].body[j])
                     \notin {J("completed"), J("halted"), J("draft")}}) <= 1

\* C2: the track left by every successful commit (Pass A's and Pass B's) holds
\* at most one release with status inProgress.
C2_CommitLeavesAtMostOneInProgress ==
  [][(/\ Len(calls') = Len(calls) + 1
      /\ calls'[Len(calls')].op = "commit"
      /\ calls'[Len(calls')].ok)
     => /\ track' = serverEdits[calls'[Len(calls')].edit]
        /\ CountStatus(track', "inProgress") <= 1]_vars

C2_Witness ==
  /\ pc = "write_outputs"
  /\ CountStatus(releases_a, "inProgress") >= 2
  /\ Cardinality({i \in 1..Len(calls) : calls[i].op = "commit" /\ calls[i].ok}) = 2
  /\ CountStatus(track, "inProgress") = 1

\* C3: when the list read in Pass A has no inProgress release, the first edit
\* gets no track update and no commit, Pass A leaves the track as it found it,
\* and halted_previous stays false.
C3_NoInProgressNoWrite ==
  (PassARead /\ CountStatus(releases_a, "inProgress") = 0) =>
     /\ \A i \in 1..Len(calls) :
          calls[i].edit = edit_id_a => calls[i].op \notin {"update_track", "commit"}
     /\ halted_previous = FALSE
     /\ (play_outputs.written => play_outputs.halted_previous = FALSE)
     /\ (pc \in {"phase1", "create_b"} => track = serverEdits[edit_id_a])

C3_Witness ==
  /\ pc = "create_b"
  /\ PassARead
  /\ releases_a # <<>>
  /\ CountStatus(releases_a, "inProgress") = 0

\* C4 as claimed: with exactly one inProgress entry read, the list Pass A writes
\* has zero inProgress, exactly one halted and zero draft entries.
C4_ExactlyOneHalted ==
  \A i \in UpdatesOf(edit_id_a) :
    CountStatus(releases_a, "inProgress") = 1 =>
       /\ CountStatus(calls[i].body, "inProgress") = 0
       /\ CountStatus(calls[i].body, "halted") = 1
       /\ CountStatus(calls[i].body, "draft") = 0

\* C4 amended: with exactly one inProgress entry read, the list Pass A writes
\* has zero inProgress and zero draft entries; it is the non-draft entries of
\* the input in their order, each with only its recognized non-null fields, the
\* formerly inProgress one with its status changed to halted; so its halted
\* entries are that one and the entries already halted in the input.
C4_HaltsTheOneInProgress ==
  \A i \in UpdatesOf(edit_id_a) :
    CountStatus(releases_a, "inProgress") = 1 =>
      LET body == calls[i].body
          kept == SelectSeq(releases_a, NotDraft)
      IN /\ CountStatus(body, "inProgress") = 0
         /\ CountStatus(body, "draft") = 0
         /\ CountStatus(body, "halted") = CountStatus(releases_a, "halted") + 1
         /\ Len(body) = Len(kept)
         /\ \A k \in 1..Len(kept) :
              /\ DOMAIN body[k] =
                   {f \in RecognizedKeys \cap DOMAIN kept[k] : ~kept[k][f].isNull}
              /\ \A f \in DOMAIN body[k] :
                   body[k][f] = IF f = "status" /\ kept[k][f] = J("inProgress")
                                  THEN J("halted") ELSE kept[k][f]

C4_Witness ==
  /\ UpdatesOf(edit_id_a) # {}
  /\ CountStatus(releases_a, "inProgress") = 1
  /\ CountStatus(releases_a, "draft") = 1
  /\ CountStatus(releases_a, "halted") = 1

\* C5: the list Pass B writes is the completed releases of the list it read, in
\* their order, followed by the one new release: exactly one entry is not
\* completed, it has status inProgress and is last, and none is draft or halted.
C5_CompletedThenNew ==
  \A i \in UpdatesOf(edit_id_b) :
    LET body == calls[i].body
        done == SelectSeq(releases_b, IsCompleted)
        n == Len(body)
    IN /\ n = Len(done) + 1
       /\ \A k \in 1..(n - 1) :
            /\ StatusOf(body[k]) = J("completed")
            /\ \A f \in DOMAIN body[k] : f \in DOMAIN done[k] /\ body[k][f] = done[k][f]
            /\ \A f \in RecognizedKeys \cap DOMAIN done[k] :
                 ~done[k][f].isNull => f \in DOMAIN body[k]
       /\ StatusOf(body[n]) = J("inProgress")
       /\ body[n].versionCodes = J(<<version_code>>)
       /\ Cardinality({k \in 1..n : StatusOf(body[k]) # J("completed")}) = 1
       /\ CountStatus(body, "draft") = 0
       /\ CountStatus(body, "halted") = 0

C5_Witness ==
  /\ UpdatesOf(edit_id_b) # {}
  /\ CountStatus(releases_b, "completed") >= 1
  /\ CountStatus(releases_b, "halted") >= 1
  /\ CountStatus(releases_b, "draft") >= 1

\* C6: every release entry of every track-update payload carries only keys of
\* the recognized set.
C6_OnlyRecognizedKeys ==
  \A i \in TrackUpdates :
    \A j \in 1..Len(calls[i].body) : DOMAIN calls[i].body[j] \subseteq RecognizedKeys

C6_Witness ==
  /\ UpdatesOf(edit_id_a) # {}
  /\ UpdatesOf(edit_id_b) # {}
  /\ \E j \in 1..Len(releases_a) :
       /\ "releaseId" \in DOMAIN releases_a[j]
       /\ StatusOf(releases_a[j]) = J("completed")
  /\ \E i \in UpdatesOf(edit_id_b) : Len(calls[i].body) >= 2

\* C7: a failed track read, track update or commit is the last API call of the
\* run and no output file is written after it.
C7_TrackCallFailureAborts ==
  \A i \in 1..Len(calls) :
    (calls[i].op \in {"get_track", "update_track", "commit"} /\ ~calls[i].ok) =>
       /\ i = Len(calls)
       /\ ~play_outputs.written
       /\ ~telegram_out.written

\* C8: a run never ends with the JSON result file written and the notification
\* message file not written.
C8_OutputsTogether ==
  pc \in {"done", "aborted"} => (play_outputs.written <=> telegram_out.written)

\* C9: from a track of one inProgress and one completed release, a run whose
\* calls all succeed ends with the track holding that completed release and
\* then a new inProgress release for the uploaded build, targeted to the given
\* country only; the formerly inProgress release is gone and the result file
\* records halted_previous = true.
C9_EndToEnd ==
  (/\ pc = "done"
   /\ AllCallsOk
   /\ Len(releases_a) = 2
   /\ CountStatus(releases_a, "inProgress") = 1
   /\ CountStatus(releases_a, "completed") = 1) =>
     LET c == CHOOSE r \in {releases_a[1], releases_a[2]} : IsCompleted(r)
         p == CHOOSE r \in {releases_a[1], releases_a[2]} : ~IsCompleted(r)
     IN /\ Len(track) = 2
        /\ track[1] = keep_fields(c)
        /\ (DOMAIN c \subseteq RecognizedKeys /\ (\A f \in DOMAIN c : ~c[f].isNull)
              => track[1] = c)
        /\ StatusOf(track[2]) = J("inProgress")
        /\ track[2].versionCodes = J(<<ToString(bundle.versionCode)>>)
        /\ track[2].countryTargeting =
             J([countries |-> <<args.country>>, includeRestOfWorld |-> FALSE])
        /\ \A k \in 1..2 : track[k].versionCodes # p.versionCodes
        /\ play_outputs.written /\ play_outputs.halted_previous = TRUE
        /\ play_outputs.version_code = ToString(bundle.versionCode)

C9_Witness ==
  /\ pc = "done"
  /\ AllCallsOk
  /\ Len(releases_a) = 2
  /\ StatusOf(releases_a[1]) = J("inProgress")
  /\ StatusOf(releases_a[2]) = J("completed")
  /\ args.country = "BD"

\* C10: a symbols upload follows a successful bundle upload in the same edit
\* and carries the version code that upload returned; after a failed bundle
\* upload the edit gets no symbols upload, track update or commit.
C10_SymbolsAfterBundle ==
  /\ \A i \in 1..Len(calls) :
       calls[i].op = "upload_symbols" =>
         /\ i > 1
         /\ calls[i - 1].op = "upload_bundle"
         /\ calls[i - 1].ok
         /\ calls[i - 1].edit = calls[i].edit
         /\ calls[i].vc = ToString(calls[i - 1].resp)
  /\ \A i \in 1..Len(calls) :
       (calls[i].op = "upload_bundle" /\ ~calls[i].ok) =>
         /\ pc = "aborted"
         /\ \A j \in (i + 1)..Len(calls) :
              calls[j].op \notin {"upload_symbols", "update_track", "commit"}

C10_Witness ==
  /\ pc = "get_b"
  /\ LastCall.op = "upload_symbols"
  /\ LastCall.vc = "12"

====
